---- MODULE Spec2Model ----
(***************************************************************************)
(* Operand layer of asmjit (core/operand.h) and the calling-convention     *)
(* dispatcher (core/callconv.cpp) as state machines.                       *)
(*                                                                         *)
(* A uint32_t is a pair <<hi, lo>> of 16-bit halves, so that every value   *)
(* of the full 32-bit width is represented and arithmetic wraps exactly as *)
(* in the code.  An int64_t / uint64_t is the pair <<hi32, lo32>> of its   *)
(* two's-complement bit pattern.                                           *)
(***************************************************************************)
EXTENDS Integers, Sequences, FiniteSets

(***************************************************************************)
(* Bounds of the model.                                                    *)
(***************************************************************************)
\* Sample ids lie within Near of the boundaries of the packed-id range.
Near == 3
\* Calls made on a Mem operand after its construction.
MaxOps == 1
\* Calling-convention ids run from 0 to MaxCcId.
MaxCcId == 52

(***************************************************************************)
(* Operand storage.                                                        *)
(***************************************************************************)
\* The four 32-bit words of an operand (AnyData).  The other views of the
\* union name the same words: _mem.base = id, _mem.index = p32_2,
\* _mem.offsetLo32 = p32_3; _p64[0] = (signature, id), _p64[1] = (p32_2, p32_3).
OperandInit(p0, p1, p2, p3) == [signature |-> p0, id |-> p1, p32_2 |-> p2, p32_3 |-> p3]

(***************************************************************************)
(* uint32_t arithmetic.                                                    *)
(***************************************************************************)
Half == 2 ^ 16

U32(n) == <<n \div Half, n % Half>>

Zero32 == <<0, 0>>

Ones32 == <<Half - 1, Half - 1>>

add32(a, b) ==
  LET s == a[2] + b[2]
  IN  <<(a[1] + b[1] + (s \div Half)) % Half, s % Half>>

carry32(a, b) == (a[1] + b[1] + ((a[2] + b[2]) \div Half)) \div Half

sub32(a, b) ==
  LET borrow == IF a[2] < b[2] THEN 1 ELSE 0
  IN  <<(a[1] + Half - b[1] - borrow) % Half, (a[2] + Half - b[2]) % Half>>

lt32(a, b) == a[1] < b[1] \/ (a[1] = b[1] /\ a[2] < b[2])

le32(a, b) == ~lt32(b, a)

RECURSIVE andBits(_, _, _)
andBits(x, y, n) ==
  IF n = 0 THEN 0
  ELSE (IF x % 2 = 1 /\ y % 2 = 1 THEN 1 ELSE 0) + 2 * andBits(x \div 2, y \div 2, n - 1)

\* x & y of two 4-bit digits, tabulated.
andDigit == [x \in 0..15 |-> [y \in 0..15 |-> andBits(x, y, 4)]]

\* x & y of two 16-bit halves, digit by digit.
and16(x, y) ==
  andDigit[x % 16][y % 16]
    + 16 * andDigit[(x \div 16) % 16][(y \div 16) % 16]
    + 256 * andDigit[(x \div 256) % 16][(y \div 256) % 16]
    + 4096 * andDigit[x \div 4096][y \div 4096]

and32(a, b) == <<and16(a[1], b[1]), and16(a[2], b[2])>>

not32(a) == <<Half - 1 - a[1], Half - 1 - a[2]>>

or32(a, b) == not32(and32(not32(a), not32(b)))

shl32(a, n) ==
  IF n >= 16
    THEN <<(a[2] * (2 ^ (n - 16))) % Half, 0>>
    ELSE <<((a[1] * (2 ^ n)) % Half) + ((a[2] * (2 ^ n)) \div Half), (a[2] * (2 ^ n)) % Half>>

shr32(a, n) ==
  IF n >= 16
    THEN <<0, a[1] \div (2 ^ (n - 16))>>
    ELSE <<a[1] \div (2 ^ n), ((a[1] % (2 ^ n)) * (2 ^ (16 - n))) + (a[2] \div (2 ^ n))>>

Pow31 == <<2 ^ 15, 0>>

\* Bit 31 of a word: the sign of its int32_t reading.
neg32(a) == a[1] >= Half \div 2

(***************************************************************************)
(* 64-bit values: <<hi32, lo32>>.                                          *)
(***************************************************************************)
lo32(v) == v[2]

hi32(v) == v[1]

add64(x, y) == <<add32(add32(x[1], y[1]), U32(carry32(x[2], y[2]))), add32(x[2], y[2])>>

\* int64_t(int32_t(w)): sign extension of a 32-bit word.
sext32(w) == <<IF neg32(w) THEN Ones32 ELSE Zero32, w>>

and64(x, y) == <<and32(x[1], y[1]), and32(x[2], y[2])>>

\* x < y and x <= y of two int64_t.
lt64s(x, y) ==
  LET bx == add32(x[1], Pow31)
      by == add32(y[1], Pow31)
  IN  lt32(bx, by) \/ (bx = by /\ lt32(x[2], y[2]))

le64s(x, y) == ~lt64s(y, x)

\* Integer conversions.  A value of a type narrower than 64 bits is held
\* as the int64_t of the same numeric value; the argument is a 32-bit word
\* and a narrowing conversion keeps its low bits.
int8_t(w) ==
  LET b == w[2] % 256
  IN  IF b >= 128 THEN <<Ones32, <<Half - 1, Half - 256 + b>>>> ELSE <<Zero32, <<0, b>>>>

uint8_t(w) == <<Zero32, <<0, w[2] % 256>>>>

int16_t(w) == IF w[2] >= Half \div 2 THEN <<Ones32, <<Half - 1, w[2]>>>> ELSE <<Zero32, <<0, w[2]>>>>

uint16_t(w) == <<Zero32, <<0, w[2]>>>>

int32_t(w) == sext32(w)

uint32_t(w) == <<Zero32, w>>

\* Whether the int64_t sum x + y leaves the range of int64_t.
addOverflows64(x, y) ==
  /\ neg32(x[1]) = neg32(y[1])
  /\ neg32(add64(x, y)[1]) # neg32(x[1])

(***************************************************************************)
(* Operand_ : operand type, signature layout, packed ids.                  *)
(***************************************************************************)
kOpNone == 0

kOpReg == 1

kOpMem == 2

kOpImm == 3

kOpLabel == 4

kSignatureOpShift == 0

kSignatureOpBits == 7

kSignatureRegTypeShift == 3

kSignatureRegTypeBits == 31

kSignatureRegGroupShift == 8

kSignatureRegGroupBits == 15

kSignatureMemBaseTypeShift == 3

kSignatureMemBaseTypeBits == 31

kSignatureMemIndexTypeShift == 8

kSignatureMemIndexTypeBits == 31

kSignatureMemBaseIndexShift == 3

kSignatureMemBaseIndexBits == 1023

kSignatureMemAddrTypeShift == 13

kSignatureMemAddrTypeBits == 3

kSignatureMemRegHomeShift == 15

kSignatureMemRegHomeBits == 1

kSignatureSizeShift == 24

kSignatureSizeBits == 255

kSignatureOpMask == shl32(U32(kSignatureOpBits), kSignatureOpShift)

kSignatureRegTypeMask == shl32(U32(kSignatureRegTypeBits), kSignatureRegTypeShift)

kSignatureRegGroupMask == shl32(U32(kSignatureRegGroupBits), kSignatureRegGroupShift)

kSignatureMemBaseTypeMask == shl32(U32(kSignatureMemBaseTypeBits), kSignatureMemBaseTypeShift)

kSignatureMemIndexTypeMask == shl32(U32(kSignatureMemIndexTypeBits), kSignatureMemIndexTypeShift)

kSignatureSizeMask == shl32(U32(kSignatureSizeBits), kSignatureSizeShift)

kSignatureMemAddrTypeMask == shl32(U32(kSignatureMemAddrTypeBits), kSignatureMemAddrTypeShift)

kSignatureMemRegHomeFlag == shl32(U32(kSignatureMemRegHomeBits), kSignatureMemRegHomeShift)

kPackedIdMin == 256

kPackedIdMax == Ones32

kPackedIdCount == add32(sub32(kPackedIdMax, U32(kPackedIdMin)), U32(1))

\* isPackedId that compares without the wrapping subtraction.
isPackedIdAbove(id) == lt32(U32(kPackedIdMin), id)

isPackedId(id) == lt32(sub32(id, U32(kPackedIdMin)), kPackedIdCount)

packId(id) == add32(id, U32(kPackedIdMin))

\* unpackId that clears the bit of kPackedIdMin instead of subtracting.
unpackIdMasked(id) == and32(id, not32(U32(kPackedIdMin)))

unpackId(id) == sub32(id, U32(kPackedIdMin))

Operand == OperandInit(U32(kOpNone), Zero32, Zero32, Zero32)

getSignature(o) == o.signature

getId(o) == o.id

_getSignatureData(o, bits, shift) == and32(shr32(o.signature, shift), U32(bits))

\* _setSignatureData that ors the value in without clearing the field.
_setSignatureDataNoClear(o, value, bits, shift) ==
  [o EXCEPT !.signature = or32(o.signature, shl32(value, shift))]

\* value is a word: the code shifts whatever it is given (the assertion
\* value <= bits is compiled out of release builds).
_setSignatureData(o, value, bits, shift) ==
  [o EXCEPT !.signature =
     or32(and32(o.signature, not32(shl32(U32(bits), shift))), shl32(value, shift))]

_hasSignatureData(o, bits) == and32(o.signature, bits) # Zero32

_clearSignatureData(o, bits, shift) ==
  [o EXCEPT !.signature = and32(o.signature, not32(shl32(U32(bits), shift)))]

getOp(o) == _getSignatureData(o, kSignatureOpBits, kSignatureOpShift)

\* isNone that looks at the type tag only.
isNoneByTag(o) == getOp(o) = U32(kOpNone)

isNone(o) == o.signature = Zero32

isReg(o) == getOp(o) = U32(kOpReg)

isMem(o) == getOp(o) = U32(kOpMem)

isImm(o) == getOp(o) = U32(kOpImm)

isLabel(o) == getOp(o) = U32(kOpLabel)

\* isPhysReg that admits the id 0xFF.
isPhysRegInclusive(o) == isReg(o) /\ le32(o.id, U32(255))

\* Operand_::isPhysReg and Operand_::isVirtReg.
isPhysReg(o) == isReg(o) /\ lt32(o.id, U32(255))

\* isVirtReg that looks at the id whatever the type tag is.
isVirtRegAnyTag(o) == lt32(U32(255), o.id)

isVirtReg(o) == isReg(o) /\ lt32(U32(255), o.id)

_initReg(o, signature, rId) == OperandInit(signature, rId, Zero32, Zero32)

reset(o) == OperandInit(Zero32, Zero32, Zero32, Zero32)

setSignature(o, signature) == [o EXCEPT !.signature = signature]

isEqual(a, b) ==
  /\ <<a.signature, a.id>> = <<b.signature, b.id>>
  /\ <<a.p32_2, a.p32_3>> = <<b.p32_2, b.p32_3>>

(***************************************************************************)
(* Label                                                                   *)
(***************************************************************************)
\* Label()
Label == OperandInit(U32(kOpLabel), Zero32, Zero32, Zero32)

\* Label(uint32_t id)
LabelId(id) == OperandInit(U32(kOpLabel), id, Zero32, Zero32)

\* Label::reset that leaves the id word alone.
Label_resetKeepId(o) == OperandInit(U32(kOpLabel), o.id, Zero32, Zero32)

Label_reset(o) == OperandInit(U32(kOpLabel), Zero32, Zero32, Zero32)

\* Label::isValid that accepts only ids of the packed range.
Label_isValidPacked(o) == isPackedId(o.id)

Label_isValid(o) == o.id # Zero32

Label_setId(o, id) == [o EXCEPT !.id = id]

(***************************************************************************)
(* Reg                                                                     *)
(***************************************************************************)
kLabelTag == 1

kRegGp32 == 5

kRegVec128 == 9

kRegMax == 31

kGroupGp == 0

kGroupVec == 1

kIdBad == 255

Reg == Operand

\* Reg(signature, rId) that passes the id on to the third word as well.
RegSignatureIdTwice(signature, rId) == OperandInit(signature, rId, rId, Zero32)

\* Reg(uint32_t signature, uint32_t rId)
RegSignatureId(signature, rId) == OperandInit(signature, rId, Zero32, Zero32)

\* Reg(const Reg& other, uint32_t rId)
RegOtherId(other, rId) == OperandInit(other.signature, rId, Zero32, Zero32)

\* Reg::isPhysReg and Reg::isVirtReg.
Reg_isPhysReg(r) == lt32(r.id, U32(kIdBad))

Reg_isVirtReg(r) == lt32(U32(kIdBad), r.id)

isSame(a, b) == <<a.signature, a.id>> = <<b.signature, b.id>>

Reg_setId(r, rId) == [r EXCEPT !.id = rId]

setSignatureT(r, RegT_kSignature) == [r EXCEPT !.signature = RegT_kSignature]

setSignatureAndId(r, signature, rId) == [r EXCEPT !.signature = signature, !.id = rId]

\* getType that shifts the signature without masking it.
getTypeUnmasked(r) == shr32(r.signature, kSignatureRegTypeShift)

getType(r) == _getSignatureData(r, kSignatureRegTypeBits, kSignatureRegTypeShift)

getGroup(r) == _getSignatureData(r, kSignatureRegGroupBits, kSignatureRegGroupShift)

\* ASMJIT_DEFINE_REG_TRAITS: the signature of a register kind.
kSignature(type, group, size) ==
  or32(or32(shl32(U32(kOpReg), kSignatureOpShift), shl32(U32(type), kSignatureRegTypeShift)),
       or32(shl32(U32(group), kSignatureRegGroupShift), shl32(U32(size), kSignatureSizeShift)))

\* cloneAs<RegT>() and cloneAs(const RegT& other)
cloneAsT(r, RegT_kSignature) == RegSignatureId(RegT_kSignature, getId(r))

cloneAs(r, other) == RegSignatureId(getSignature(other), getId(r))

\* Reg statics: the tag and the register group of any operand in one masked
\* comparison of the signature.
Reg_isGpGroupOnly(op) == getGroup(op) = U32(kGroupGp)

Reg_isGp(op) ==
  LET kSgn == or32(shl32(U32(kOpReg), kSignatureOpShift),
                   shl32(U32(kGroupGp), kSignatureRegGroupShift))
  IN  and32(getSignature(op), or32(kSignatureOpMask, kSignatureRegGroupMask)) = kSgn

Reg_isVec(op) ==
  LET kSgn == or32(shl32(U32(kOpReg), kSignatureOpShift),
                   shl32(U32(kGroupVec), kSignatureRegGroupShift))
  IN  and32(getSignature(op), or32(kSignatureOpMask, kSignatureRegGroupMask)) = kSgn

(***************************************************************************)
(* RegOnly: the 8-byte (signature, id) form of a Reg.                      *)
(***************************************************************************)
RegOnly_init(signature, id) == [signature |-> signature, id |-> id]

\* init(const Reg&) that passes the two words in the wrong order.
RegOnly_initRegSwapped(reg) == RegOnly_init(getId(reg), getSignature(reg))

RegOnly_initReg(reg) == RegOnly_init(getSignature(reg), getId(reg))

RegOnly_reset == RegOnly_init(Zero32, Zero32)

RegOnly_isNone(ro) == ro.signature = Zero32

RegOnly_isValid(ro) == ro.signature # Zero32

RegOnly_isPhysReg(ro) == lt32(ro.id, U32(kIdBad))

\* isVirtReg that counts kIdBad as a virtual id.
RegOnly_isVirtRegInclusive(ro) == le32(U32(kIdBad), ro.id)

RegOnly_isVirtReg(ro) == lt32(U32(kIdBad), ro.id)

RegOnly_setId(ro, id) == [ro EXCEPT !.id = id]

RegOnly_getSignatureData(ro, bits, shift) == and32(shr32(ro.signature, shift), U32(bits))

RegOnly_getType(ro) ==
  RegOnly_getSignatureData(ro, kSignatureRegTypeBits, kSignatureRegTypeShift)

RegOnly_getGroup(ro) ==
  RegOnly_getSignatureData(ro, kSignatureRegGroupBits, kSignatureRegGroupShift)

\* toReg<Reg>()
RegOnly_toReg(ro) == RegSignatureId(ro.signature, ro.id)

(***************************************************************************)
(* Mem                                                                     *)
(***************************************************************************)
Mem == OperandInit(U32(kOpMem), Zero32, Zero32, Zero32)

MemInit(baseType, baseId, indexType, indexId, off, size, flags) ==
  OperandInit(
    or32(or32(U32(kOpMem), shl32(U32(baseType), kSignatureMemBaseTypeShift)),
         or32(shl32(U32(indexType), kSignatureMemIndexTypeShift),
              or32(shl32(U32(size), kSignatureSizeShift), flags))),
    baseId, indexId, off)

\* Mem::reset
Mem_reset(o) == OperandInit(U32(kOpMem), Zero32, Zero32, Zero32)

maskFromBool(b) == IF b THEN Ones32 ELSE Zero32

hasBase(m) == and32(m.signature, kSignatureMemBaseTypeMask) # Zero32

hasIndex(m) == and32(m.signature, kSignatureMemIndexTypeMask) # Zero32

hasBaseAndIndex(m) ==
  and32(m.signature, kSignatureMemBaseTypeMask) # Zero32 /\
    and32(m.signature, kSignatureMemIndexTypeMask) # Zero32

\* hasBaseReg that counts the label tag as a register type.
hasBaseRegInclusive(m) ==
  le32(shl32(U32(kLabelTag), kSignatureMemBaseTypeShift),
       and32(m.signature, kSignatureMemBaseTypeMask))

hasBaseReg(m) ==
  lt32(shl32(U32(kLabelTag), kSignatureMemBaseTypeShift),
       and32(m.signature, kSignatureMemBaseTypeMask))

hasBaseLabel(m) ==
  and32(m.signature, kSignatureMemBaseTypeMask) =
    shl32(U32(kLabelTag), kSignatureMemBaseTypeShift)

\* Address type.
kAddrTypeDefault == 0

kAddrTypeAbs == 1

kAddrTypeRel == 2

kAddrTypeWrt == 3

getAddrType(m) == _getSignatureData(m, kSignatureMemAddrTypeBits, kSignatureMemAddrTypeShift)

setAddrType(m, addrType) ==
  _setSignatureData(m, addrType, kSignatureMemAddrTypeBits, kSignatureMemAddrTypeShift)

resetAddrType(m) ==
  _clearSignatureData(m, kSignatureMemAddrTypeBits, kSignatureMemAddrTypeShift)

setAbs(m) == setAddrType(m, U32(kAddrTypeAbs))

setRel(m) == setAddrType(m, U32(kAddrTypeRel))

setWrt(m) == setAddrType(m, U32(kAddrTypeWrt))

\* Register home flag.
isRegHome(m) == _hasSignatureData(m, kSignatureMemRegHomeFlag)

\* setRegHome that assigns the flag instead of or-ing it in.
setRegHomeAssign(m) == [m EXCEPT !.signature = kSignatureMemRegHomeFlag]

setRegHome(m) == [m EXCEPT !.signature = or32(m.signature, kSignatureMemRegHomeFlag)]

clearRegHome(m) ==
  [m EXCEPT !.signature = and32(m.signature, not32(kSignatureMemRegHomeFlag))]

getSize(m) == _getSignatureData(m, kSignatureSizeBits, kSignatureSizeShift)

setSize(m, size) == _setSignatureData(m, size, kSignatureSizeBits, kSignatureSizeShift)

getBaseType(m) == _getSignatureData(m, kSignatureMemBaseTypeBits, kSignatureMemBaseTypeShift)

getIndexType(m) == _getSignatureData(m, kSignatureMemIndexTypeBits, kSignatureMemIndexTypeShift)

getBaseId(m) == m.id

getIndexId(m) == m.p32_2

setBaseId(m, rId) == [m EXCEPT !.id = rId]

setIndexId(m, rId) == [m EXCEPT !.p32_2 = rId]

\* _setBase that forgets the id word.
_setBaseTypeOnly(m, rType, rId) ==
  _setSignatureData(m, rType, kSignatureMemBaseTypeBits, kSignatureMemBaseTypeShift)

_setBase(m, rType, rId) ==
  [_setSignatureData(m, rType, kSignatureMemBaseTypeBits, kSignatureMemBaseTypeShift)
     EXCEPT !.id = rId]

\* _setIndex that writes the type into the base type field.
_setIndexBaseField(m, rType, rId) ==
  [_setSignatureData(m, rType, kSignatureMemBaseTypeBits, kSignatureMemBaseTypeShift)
     EXCEPT !.p32_2 = rId]

_setIndex(m, rType, rId) ==
  [_setSignatureData(m, rType, kSignatureMemIndexTypeBits, kSignatureMemIndexTypeShift)
     EXCEPT !.p32_2 = rId]

setBase(m, base) == _setBase(m, getType(base), getId(base))

setIndex(m, index) == _setIndex(m, getType(index), getId(index))

\* resetBase that clears the base type and leaves the base id in word 1.
resetBaseKeepId(m) == _setBaseTypeOnly(m, Zero32, Zero32)

resetBase(m) == _setBase(m, Zero32, Zero32)

resetIndex(m) == _setIndex(m, Zero32, Zero32)

isOffset64Bit(m) == getBaseType(m) = Zero32

\* hasOffset that looks at word 1 whatever the mode.
hasOffsetUnmasked(m) == or32(m.p32_3, m.id) # Zero32

hasOffset(m) == or32(m.p32_3, and32(m.id, maskFromBool(isOffset64Bit(m)))) # Zero32

\* getOffset that zero-extends the displacement when a base is present.
getOffsetZeroExtend(m) ==
  IF isOffset64Bit(m) THEN <<m.id, m.p32_3>> ELSE <<Zero32, m.p32_3>>

getOffset(m) ==
  IF isOffset64Bit(m) THEN <<m.id, m.p32_3>> ELSE sext32(m.p32_3)

getOffsetLo32(m) == m.p32_3

\* setOffset that writes the displacement word only.
setOffsetLoOnly(m, offset) == [m EXCEPT !.p32_3 = lo32(offset)]

\* setOffset that writes both words whatever the mode.
setOffsetBothWords(m, offset) == [m EXCEPT !.p32_3 = lo32(offset), !.id = hi32(offset)]

setOffset(m, offset) ==
  LET lo    == lo32(offset)
      hi    == hi32(offset)
      hiMsk == maskFromBool(isOffset64Bit(m))
  IN  [m EXCEPT !.p32_3 = lo,
                !.id    = or32(and32(hi, hiMsk), and32(m.id, not32(hiMsk)))]

setOffsetLo32(m, offset) == [m EXCEPT !.p32_3 = offset]

addOffsetLo32(m, offset) == [m EXCEPT !.p32_3 = add32(m.p32_3, offset)]

resetOffsetLo32(m) == setOffsetLo32(m, Zero32)

\* addOffset that adds the two words separately, without the carry.
addOffsetNoCarry(m, offset) ==
  IF isOffset64Bit(m)
    THEN [m EXCEPT !.p32_3 = add32(m.p32_3, lo32(offset)), !.id = add32(m.id, hi32(offset))]
    ELSE [m EXCEPT !.p32_3 = add32(m.p32_3, lo32(offset))]

\* The value addOffset leaves when the addition does not trap: the sum is
\* the wrapped 64-bit sum in absolute mode, a 32-bit wrapping add otherwise.
addOffset(m, offset) ==
  IF isOffset64Bit(m)
    THEN LET result == add64(offset, <<m.id, m.p32_3>>)
         IN  [m EXCEPT !.p32_3 = lo32(result), !.id = hi32(result)]
    ELSE [m EXCEPT !.p32_3 = add32(m.p32_3, lo32(offset))]

\* offset + int64_t(...) at operand.h:1055 is a signed addition: when the sum
\* leaves int64_t the behaviour is undefined.
addOffsetUndefined(m, offset) ==
  isOffset64Bit(m) /\ addOverflows64(offset, <<m.id, m.p32_3>>)

resetOffset(m) == setOffset(m, <<Zero32, Zero32>>)

(***************************************************************************)
(* Imm.  The 64-bit payload overlays words 2-3 in the byte order of the    *)
(* host; Globals::kHalfLo / kHalfHi and the IntUtils helpers live in       *)
(* headers outside these sources and are modelled from the specification.  *)
(***************************************************************************)
VARIABLE hostLE  \* the host is little-endian

\* Globals::kHalfLo and Globals::kHalfHi: the index of the low and of the
\* high 32-bit half of a 64-bit value in memory.
kHalfLo == IF hostLE THEN 0 ELSE 1

kHalfHi == IF hostLE THEN 1 ELSE 0

\* IntUtils::unpackU32At0 / unpackU32At1: the first and the second 32-bit
\* word of a 64-bit value in memory.
unpackU32At0(val) == IF hostLE THEN lo32(val) ELSE hi32(val)

unpackU32At1(val) == IF hostLE THEN hi32(val) ELSE lo32(val)

\* IntUtils::isInt8 / isInt16 / isInt32 and isUInt8 / isUInt16 / isUInt32 of
\* an int64_t: interval tests.
IntUtils_isIntN(x, n) ==
  /\ le64s(<<Ones32, not32(shr32(Ones32, 33 - n))>>, x)
  /\ le64s(x, <<Zero32, shr32(Ones32, 33 - n)>>)

IntUtils_isUIntN(x, n) ==
  /\ le64s(<<Zero32, Zero32>>, x)
  /\ le64s(x, <<Zero32, shr32(Ones32, 32 - n)>>)

\* _imm.value.u32[half] (and .i32[half]): word 2 or word 3.
imm_u32(o, half) == IF half = 0 THEN o.p32_2 ELSE o.p32_3

\* _imm.value.i64 (and .u64) read and written.
imm_i64(o) == <<imm_u32(o, kHalfHi), imm_u32(o, kHalfLo)>>

imm_set64(o, val) == [o EXCEPT !.p32_2 = unpackU32At0(val), !.p32_3 = unpackU32At1(val)]

\* Imm()
Imm == OperandInit(U32(kOpImm), Zero32, Zero32, Zero32)

\* Imm(int64_t val)
ImmVal(val) == OperandInit(U32(kOpImm), Zero32, unpackU32At0(val), unpackU32At1(val))

\* isInt8 that classifies the low 32-bit half only.
Imm_isInt8Lo32(o) == IntUtils_isIntN(int32_t(imm_u32(o, kHalfLo)), 8)

Imm_isInt8(o) == IntUtils_isIntN(imm_i64(o), 8)

Imm_isUInt8(o) == IntUtils_isUIntN(imm_i64(o), 8)

Imm_isInt16(o) == IntUtils_isIntN(imm_i64(o), 16)

Imm_isUInt16(o) == IntUtils_isUIntN(imm_i64(o), 16)

Imm_isInt32(o) == IntUtils_isIntN(imm_i64(o), 32)

Imm_isUInt32(o) == IntUtils_isUIntN(imm_i64(o), 32)

Imm_getInt8(o) == int8_t(and32(imm_u32(o, kHalfLo), U32(255)))

Imm_getUInt8(o) == uint8_t(and32(imm_u32(o, kHalfLo), U32(255)))

\* getInt16 that masks with 0xFF in place of 0xFFFF.
Imm_getInt16Mask8(o) == int16_t(and32(imm_u32(o, kHalfLo), U32(255)))

Imm_getInt16(o) == int16_t(and32(imm_u32(o, kHalfLo), U32(Half - 1)))

Imm_getUInt16(o) == uint16_t(and32(imm_u32(o, kHalfLo), U32(Half - 1)))

Imm_getInt32(o) == int32_t(imm_u32(o, kHalfLo))

Imm_getUInt32(o) == uint32_t(imm_u32(o, kHalfLo))

Imm_getInt64(o) == imm_i64(o)

Imm_getUInt64(o) == imm_i64(o)

\* The argument w is the bit pattern of the int8_t, uint8_t, int16_t,
\* uint16_t, int32_t or uint32_t passed; the store converts it to 64 bits.
\* setInt8 that widens its argument without the sign.
Imm_setInt8ZeroExtend(o, w) == imm_set64(o, uint8_t(w))

Imm_setInt8(o, w) == imm_set64(o, int8_t(w))

Imm_setUInt8(o, w) == imm_set64(o, uint8_t(w))

Imm_setInt16(o, w) == imm_set64(o, int16_t(w))

Imm_setUInt16(o, w) == imm_set64(o, uint16_t(w))

Imm_setInt32(o, w) == imm_set64(o, int32_t(w))

Imm_setUInt32(o, w) == imm_set64(o, uint32_t(w))

Imm_setInt64(o, val) == imm_set64(o, val)

\* signExtend8Bits that widens without the conversion to int8_t.
Imm_signExtend8BitsUnsigned(o) == imm_set64(o, and64(imm_i64(o), <<Zero32, U32(255)>>))

Imm_signExtend8Bits(o) == imm_set64(o, int8_t(lo32(and64(imm_i64(o), <<Zero32, U32(255)>>))))

Imm_signExtend16Bits(o) ==
  imm_set64(o, int16_t(lo32(and64(imm_i64(o), <<Zero32, U32(Half - 1)>>))))

Imm_signExtend32Bits(o) == imm_set64(o, int32_t(lo32(and64(imm_i64(o), <<Zero32, Ones32>>))))

Imm_zeroExtend8Bits(o) == imm_set64(o, and64(imm_i64(o), <<Zero32, U32(255)>>))

Imm_zeroExtend16Bits(o) == imm_set64(o, and64(imm_i64(o), <<Zero32, U32(Half - 1)>>))

Imm_zeroExtend32Bits(o) == imm_set64(o, and64(imm_i64(o), <<Zero32, Ones32>>))

(***************************************************************************)
(* CallConv::init (core/callconv.cpp).  The descriptor, its reset(), the   *)
(* family predicates and the family table builders live in headers outside *)
(* these sources; they are modelled from the specification.                *)
(***************************************************************************)
kIdX86Start == 16

kIdX64End == 36

kIdArmStart == 48

kIdArmEnd == 49

\* The descriptor after reset(): nothing filled in.
CallConv_reset == [id |-> 0, arch |-> "none"]

isX86Family(ccId) == ccId >= kIdX86Start /\ ccId <= kIdX64End

isArmFamily(ccId) == ccId >= kIdArmStart /\ ccId <= kIdArmEnd

\* A family's table builder fills in the descriptor.
X86CallConvInternal_init(d, ccId) == [d EXCEPT !.id = ccId, !.arch = "x86"]

ArmCallConvInternal_init(d, ccId) == [d EXCEPT !.id = ccId, !.arch = "arm"]

\* init that classifies the id without resetting the descriptor first.
CallConv_initNoReset(d, ccId, x86, arm) ==
  IF x86 /\ isX86Family(ccId)
    THEN [cc |-> X86CallConvInternal_init(d, ccId), err |-> "kErrorOk", builder |-> "x86"]
  ELSE IF arm /\ isArmFamily(ccId)
    THEN [cc |-> ArmCallConvInternal_init(d, ccId), err |-> "kErrorOk", builder |-> "arm"]
  ELSE [cc |-> d, err |-> "kErrorInvalidArgument", builder |-> "none"]

\* init that leaves a descriptor alone once an init has filled it in.
CallConv_initOnce(d, ccId, x86, arm) ==
  IF d # CallConv_reset
    THEN [cc |-> d, err |-> "kErrorInvalidState", builder |-> "none"]
  ELSE IF x86 /\ isX86Family(ccId)
    THEN [cc |-> X86CallConvInternal_init(d, ccId), err |-> "kErrorOk", builder |-> "x86"]
  ELSE IF arm /\ isArmFamily(ccId)
    THEN [cc |-> ArmCallConvInternal_init(d, ccId), err |-> "kErrorOk", builder |-> "arm"]
  ELSE [cc |-> d, err |-> "kErrorInvalidArgument", builder |-> "none"]

\* CallConv::init(ccId) on descriptor d in a build with the x86 and/or the
\* ARM backend compiled in: the descriptor it leaves, the Error it returns
\* and the builder it called.
CallConv_init(d, ccId, x86, arm) ==
  LET r == CallConv_reset
  IN  IF x86 /\ isX86Family(ccId)
        THEN [cc |-> X86CallConvInternal_init(r, ccId), err |-> "kErrorOk", builder |-> "x86"]
      ELSE IF arm /\ isArmFamily(ccId)
        THEN [cc |-> ArmCallConvInternal_init(r, ccId), err |-> "kErrorOk", builder |-> "arm"]
      ELSE [cc |-> r, err |-> "kErrorInvalidArgument", builder |-> "none"]

(***************************************************************************)
(* Inputs.                                                                 *)
(***************************************************************************)
\* 32-bit words at the boundaries of the unsigned and of the signed range:
\* 0, 1, 0x7FFFFFFF, 0x80000000, 0xFFFFFFFF.
SampleWords == {Zero32, U32(1), sub32(Pow31, U32(1)), Pow31, Ones32}

\* 64-bit offsets: every pair of a sample high word and a sample low word.
SampleOffsets == SampleWords \X SampleWords

\* Signatures of two register kinds, as ASMJIT_DEFINE_REG_TRAITS builds them.
SampleKinds ==
  { kSignature(kRegGp32, kGroupGp, 4), kSignature(kRegVec128, kGroupVec, 16) }

\* Signatures a caller may pass: the kinds, none, and one with only a size.
SampleSignatures == SampleKinds \cup {Zero32, shl32(U32(8), kSignatureSizeShift)}

\* Register ids around kIdBad, and the two ends of the id range.
SampleRegIds == {Zero32, U32(kIdBad - 1), U32(kIdBad), U32(kIdBad + 1), Ones32}

\* Registers handed to setBase / setIndex: the default Reg, three kinds and
\* one whose signature has every bit set.
SampleRegs ==
  { Reg,
    RegSignatureId(Ones32, U32(kIdBad)),
    RegSignatureId(kSignature(kRegGp32, kGroupGp, 4), U32(1)),
    RegSignatureId(kSignature(kRegVec128, kGroupVec, 16), U32(kIdBad + 1)),
    RegSignatureId(kSignature(kRegMax, kGroupGp, 8), Ones32) }

\* Low words of immediates: the ends of the ranges of int8_t, uint8_t,
\* int16_t, uint16_t and int32_t, and their neighbours.
SampleImmLows ==
  SampleWords \cup
    { U32(127), U32(128), U32(255), U32(256), U32(Half \div 2 - 1), U32(Half \div 2),
      U32(Half - 1), <<1, 0>>, sub32(Zero32, U32(128)), sub32(Zero32, U32(129)),
      sub32(Zero32, U32(Half \div 2)), sub32(Zero32, U32(Half \div 2 + 1)) }

\* 64-bit immediates: every pair of a sample high word and a sample low word.
SampleImms == SampleWords \X SampleImmLows

\* The layout catalogue: every field as <<bits, shift>>.
SignatureFields ==
  { <<kSignatureOpBits, kSignatureOpShift>>,
    <<kSignatureRegTypeBits, kSignatureRegTypeShift>>,
    <<kSignatureRegGroupBits, kSignatureRegGroupShift>>,
    <<kSignatureMemBaseTypeBits, kSignatureMemBaseTypeShift>>,
    <<kSignatureMemIndexTypeBits, kSignatureMemIndexTypeShift>>,
    <<kSignatureMemBaseIndexBits, kSignatureMemBaseIndexShift>>,
    <<kSignatureMemAddrTypeBits, kSignatureMemAddrTypeShift>>,
    <<kSignatureMemRegHomeBits, kSignatureMemRegHomeShift>>,
    <<kSignatureSizeBits, kSignatureSizeShift>> }

\* Operands whose signature field is written: every bit clear, every bit
\* set, alternating bits, and the signatures a caller may pass; words 1-3
\* hold three different nonzero values.
SampleFieldOperands ==
  { OperandInit(signature, U32(1), Pow31, Ones32) :
      signature \in SampleSignatures \cup {Ones32, <<42405, 23130>>} }

\* Ids within Near of 0, kPackedIdMin, 2^31 and 2^32 - kPackedIdMin.
SampleIds ==
  LET edges == {Zero32, U32(kPackedIdMin), Pow31, sub32(Zero32, U32(kPackedIdMin))}
  IN  {add32(e, U32(k)) : e \in edges, k \in 0..Near}
        \cup {sub32(e, U32(k)) : e \in edges, k \in 1..Near}

(***************************************************************************)
(* State.                                                                  *)
(***************************************************************************)
VARIABLES
  mem,    \* the Mem operand
  mPre,   \* the operand before the last call
  mOp,    \* the last call on it
  mOff,   \* the int64_t argument of the last call
  mReg,   \* the Reg argument of the last call
  mN,     \* calls made so far
  mVal    \* <<value, bits, caller>> handed to _setSignatureData by the last call

memVars == <<mem, mPre, mOp, mOff, mReg, mN, mVal>>

VARIABLES
  regs,   \* two Reg operands, regs[1] and regs[2]
  rOp     \* the last call on them

regVars == <<regs, rOp>>

VARIABLES
  opnd,   \* an Operand
  oOp     \* the last call on it

opVars == <<opnd, oOp>>

VARIABLES
  pIn,    \* the id given to the last packed-id helper call
  pOut,   \* the id it returned
  pOk,    \* the answer of isPackedId
  pOp     \* the last helper call

idVars == <<pIn, pOut, pOk, pOp>>

VARIABLES
  buildX86,   \* ASMJIT_BUILD_X86 is defined
  buildARM,   \* ASMJIT_BUILD_ARM is defined
  cc,         \* the CallConv descriptor
  ccPre,      \* the descriptor before the last init
  ccId,       \* the argument of the last init
  ccErr,      \* the Error it returned
  ccBuilder,  \* the family builder it called
  ccOp        \* the last call

ccVars == <<buildX86, buildARM, cc, ccPre, ccId, ccErr, ccBuilder, ccOp>>

VARIABLES
  lbls,   \* two Label operands, lbls[1] and lbls[2]
  lblIds, \* the id most recently assigned to each
  lOp     \* the last call on them

labelVars == <<lbls, lblIds, lOp>>

VARIABLES
  imm,    \* the Imm operand
  immPre, \* the operand before the last call
  iOp,    \* the last call on it
  iOut    \* what the call returned, the value passed to a setter, or FALSE

immVars == <<hostLE, imm, immPre, iOp, iOut>>

VARIABLES
  sgIn,    \* the operand whose signature field is written
  sgField, \* the field, <<bits, shift>>
  sgVal,   \* the value written
  sgOut,   \* the operand after _setSignatureData
  sgRead,  \* what _getSignatureData then returned
  sgOp     \* the last call

sigVars == <<sgIn, sgField, sgVal, sgOut, sgRead, sgOp>>

VARIABLES
  ro,     \* a RegOnly
  roReg,  \* the Reg given to the last init(reg)
  roOp    \* the last call on it

roVars == <<ro, roReg, roOp>>

kindVars == <<labelVars, immVars, sigVars, roVars>>

vars == <<memVars, regVars, opVars, idVars, ccVars, kindVars>>

(***************************************************************************)
(* Initial states.  Each specification starts its own component in every   *)
(* state its constructors can leave and the others freshly constructed.    *)
(***************************************************************************)
MemFresh(m) ==
  /\ mem = m
  /\ mPre = m
  /\ mOp = "Mem"
  /\ mOff = <<Zero32, Zero32>>
  /\ mReg = Reg
  /\ mN = 0
  /\ mVal = <<>>

\* Mem() or Mem(Globals::Init, baseType, baseId, indexType, indexId, off, size, flags).
MemStart ==
  \* word 1 is any sample word where it is the high address word, and the
  \* least or the greatest id where it is a base id
  \/ \E baseType \in {0, kLabelTag, kRegGp32}, indexType \in {0, kRegGp32},
        off \in SampleWords :
          \E baseId \in (IF baseType = 0 THEN SampleWords ELSE {Zero32, Ones32}) :
            MemFresh(MemInit(baseType, baseId, indexType, U32(indexType), off, 0, Zero32))
  \* with a size, an address type and the register home flag
  \/ \E baseType \in {0, kLabelTag, kRegGp32}, indexType \in {0, kRegGp32},
        off \in {Zero32, Ones32} :
          MemFresh(MemInit(baseType, U32(1), indexType, U32(indexType), off,
                           kSignatureSizeBits,
                           or32(kSignatureMemAddrTypeMask, kSignatureMemRegHomeFlag)))

RegStart ==
  /\ regs = <<Reg, Reg>>
  /\ rOp = "Reg"

OperandStart ==
  /\ opnd = Operand
  /\ oOp = "Operand"

IdStart ==
  /\ pIn = Zero32
  /\ pOut = Zero32
  /\ pOk = FALSE
  /\ pOp = "none"

CallConvFresh(x86, arm) ==
  /\ buildX86 = x86
  /\ buildARM = arm
  /\ cc = CallConv_reset
  /\ ccPre = CallConv_reset
  /\ ccId = 0
  /\ ccErr = "kErrorOk"
  /\ ccBuilder = "none"
  /\ ccOp = "CallConv"

\* Every build configuration.
CallConvStart == \E x86 \in BOOLEAN, arm \in BOOLEAN : CallConvFresh(x86, arm)

LabelStart ==
  /\ lbls = <<Label, Label>>
  /\ lblIds = <<Zero32, Zero32>>
  /\ lOp = "Label"

ImmFresh(le, o) ==
  /\ hostLE = le
  /\ imm = o
  /\ immPre = o
  /\ iOp = "Imm"
  /\ iOut = FALSE

\* Imm() and Imm(val) on a host of either byte order.
ImmStart ==
  \E le \in BOOLEAN :
    \/ ImmFresh(le, Imm)
    \/ \E val \in SampleImms :
         ImmFresh(le, OperandInit(U32(kOpImm), Zero32,
                                  IF le THEN lo32(val) ELSE hi32(val),
                                  IF le THEN hi32(val) ELSE lo32(val)))

SigFresh(o, field, value) ==
  /\ sgIn = o
  /\ sgField = field
  /\ sgVal = value
  /\ sgOut = o
  /\ sgRead = Zero32
  /\ sgOp = "none"

\* Every sample operand, field of the catalogue and value that fits it.
SigStart ==
  \E o \in SampleFieldOperands, field \in SignatureFields :
    \E value \in 0..field[1] : SigFresh(o, field, value)

RegOnlyFresh(r) ==
  /\ ro = r
  /\ roReg = Reg
  /\ roOp = "RegOnly"

\* RegOnly declares no constructor: its two words start with any content.
RegOnlyStart ==
  \E signature \in SampleSignatures, id \in SampleRegIds :
    RegOnlyFresh(RegOnly_init(signature, id))

SigIdle == SigFresh(Operand, <<kSignatureOpBits, kSignatureOpShift>>, 0)

KindStart == LabelStart /\ ImmFresh(TRUE, Imm) /\ SigIdle /\ RegOnlyFresh(RegOnly_reset)

KindStartImm == LabelStart /\ ImmStart /\ SigIdle /\ RegOnlyFresh(RegOnly_reset)

KindStartSig == LabelStart /\ ImmFresh(TRUE, Imm) /\ SigStart /\ RegOnlyFresh(RegOnly_reset)

KindStartRegOnly == LabelStart /\ ImmFresh(TRUE, Imm) /\ SigIdle /\ RegOnlyStart

InitMem ==
  MemStart /\ RegStart /\ OperandStart /\ IdStart /\ CallConvFresh(TRUE, TRUE) /\ KindStart

InitOther ==
  MemFresh(Mem) /\ RegStart /\ OperandStart /\ IdStart /\ CallConvFresh(TRUE, TRUE) /\ KindStart

InitImm ==
  MemFresh(Mem) /\ RegStart /\ OperandStart /\ IdStart /\ CallConvFresh(TRUE, TRUE) /\ KindStartImm

InitSig ==
  MemFresh(Mem) /\ RegStart /\ OperandStart /\ IdStart /\ CallConvFresh(TRUE, TRUE) /\ KindStartSig

InitRegOnly ==
  MemFresh(Mem) /\ RegStart /\ OperandStart /\ IdStart /\ CallConvFresh(TRUE, TRUE)
    /\ KindStartRegOnly

InitCallConv ==
  MemFresh(Mem) /\ RegStart /\ OperandStart /\ IdStart /\ CallConvStart /\ KindStart

(***************************************************************************)
(* Mem: one action per member function.                                    *)
(***************************************************************************)
\* The program is running and the behaviour has calls left.
MemCanCall == mOp \notin {"trap", "abort"} /\ mN < MaxOps

MemStep(name, result, off, r, val) ==
  /\ mem' = result
  /\ mPre' = mem
  /\ mOp' = name
  /\ mOff' = off
  /\ mReg' = r
  /\ mN' = mN + 1
  /\ mVal' = val
  /\ UNCHANGED <<regVars, opVars, idVars, ccVars, kindVars>>

\* A call that does not go through _setSignatureData.
MemCall(name, result, off, r) == MemStep(name, result, off, r, <<>>)

\* A call that hands value to _setSignatureData for the field of mask bits:
\* ASMJIT_ASSERT(value <= bits) aborts the program in a build that keeps
\* assertions, and the write goes ahead in a build that compiles them out.
MemFieldCall(name, result, off, r, value, bits) ==
  \/ MemStep(name, result, off, r, <<value, U32(bits), name>>)
  \/ /\ ~le32(value, U32(bits))
     /\ MemStep("abort", mem, off, r, <<value, U32(bits), name>>)

SetOffset ==
  /\ MemCanCall
  /\ \E v \in SampleOffsets : MemCall("setOffset", setOffset(mem, v), v, Reg)

\* Where the signed sum overflows the build decides: the sum wraps, or the
\* call traps and the program ends.
AddOffset ==
  /\ MemCanCall
  /\ \E v \in SampleOffsets :
       \/ MemCall("addOffset", addOffset(mem, v), v, Reg)
       \/ /\ addOffsetUndefined(mem, v)
          /\ MemCall("trap", mem, v, Reg)

SetBase ==
  /\ MemCanCall
  /\ \E r \in SampleRegs :
       MemFieldCall("setBase", setBase(mem, r), <<Zero32, Zero32>>, r,
                    getType(r), kSignatureMemBaseTypeBits)

SetIndex ==
  /\ MemCanCall
  /\ \E r \in SampleRegs :
       MemFieldCall("setIndex", setIndex(mem, r), <<Zero32, Zero32>>, r,
                    getType(r), kSignatureMemIndexTypeBits)

ResetBase ==
  /\ MemCanCall
  /\ MemFieldCall("resetBase", resetBase(mem), <<Zero32, Zero32>>, Reg,
                  Zero32, kSignatureMemBaseTypeBits)

ResetIndex ==
  /\ MemCanCall
  /\ MemFieldCall("resetIndex", resetIndex(mem), <<Zero32, Zero32>>, Reg,
                  Zero32, kSignatureMemIndexTypeBits)

SetBaseId ==
  /\ MemCanCall
  /\ \E rId \in SampleWords : MemCall("setBaseId", setBaseId(mem, rId), <<Zero32, rId>>, Reg)

SetIndexId ==
  /\ MemCanCall
  /\ \E rId \in {Zero32, Ones32} : MemCall("setIndexId", setIndexId(mem, rId), <<Zero32, rId>>, Reg)

\* The int32_t argument is held in mOff as its 32-bit pattern.
SetOffsetLo32 ==
  /\ MemCanCall
  /\ \E v \in {U32(1), Ones32} : MemCall("setOffsetLo32", setOffsetLo32(mem, v), <<Zero32, v>>, Reg)

AddOffsetLo32 ==
  /\ MemCanCall
  /\ \E v \in {U32(1), Ones32} : MemCall("addOffsetLo32", addOffsetLo32(mem, v), <<Zero32, v>>, Reg)

ResetOffset ==
  /\ MemCanCall
  /\ MemCall("resetOffset", resetOffset(mem), <<Zero32, Zero32>>, Reg)

ResetOffsetLo32 ==
  /\ MemCanCall
  /\ MemCall("resetOffsetLo32", resetOffsetLo32(mem), <<Zero32, Zero32>>, Reg)

\* Sizes and address types a caller may pass, the first value past each
\* field included.
SetSize ==
  /\ MemCanCall
  /\ \E size \in {8, kSignatureSizeBits, kSignatureSizeBits + 1} :
       MemFieldCall("setSize", setSize(mem, U32(size)), <<Zero32, U32(size)>>, Reg,
                    U32(size), kSignatureSizeBits)

SetAddrType ==
  /\ MemCanCall
  /\ \E addrType \in {kAddrTypeDefault, kAddrTypeRel, kAddrTypeWrt + 1} :
       MemFieldCall("setAddrType", setAddrType(mem, U32(addrType)), <<Zero32, U32(addrType)>>,
                    Reg, U32(addrType), kSignatureMemAddrTypeBits)

SetAbs ==
  /\ MemCanCall
  /\ MemFieldCall("setAbs", setAbs(mem), <<Zero32, Zero32>>, Reg,
                  U32(kAddrTypeAbs), kSignatureMemAddrTypeBits)

SetRel ==
  /\ MemCanCall
  /\ MemFieldCall("setRel", setRel(mem), <<Zero32, Zero32>>, Reg,
                  U32(kAddrTypeRel), kSignatureMemAddrTypeBits)

SetWrt ==
  /\ MemCanCall
  /\ MemFieldCall("setWrt", setWrt(mem), <<Zero32, Zero32>>, Reg,
                  U32(kAddrTypeWrt), kSignatureMemAddrTypeBits)

ResetAddrType ==
  /\ MemCanCall
  /\ MemCall("resetAddrType", resetAddrType(mem), <<Zero32, Zero32>>, Reg)

SetRegHome ==
  /\ MemCanCall
  /\ MemCall("setRegHome", setRegHome(mem), <<Zero32, Zero32>>, Reg)

ClearRegHome ==
  /\ MemCanCall
  /\ MemCall("clearRegHome", clearRegHome(mem), <<Zero32, Zero32>>, Reg)

MemReset ==
  /\ MemCanCall
  /\ MemCall("reset", Mem_reset(mem), <<Zero32, Zero32>>, Reg)

MemNext ==
  \/ MemReset
  \/ SetOffset
  \/ AddOffset
  \/ SetBase
  \/ SetIndex
  \/ ResetBase
  \/ ResetIndex
  \/ SetBaseId
  \/ SetIndexId
  \/ SetOffsetLo32
  \/ AddOffsetLo32
  \/ ResetOffset
  \/ ResetOffsetLo32
  \/ SetSize
  \/ SetAddrType
  \/ SetAbs
  \/ SetRel
  \/ SetWrt
  \/ ResetAddrType
  \/ SetRegHome
  \/ ClearRegHome

SpecMem == InitMem /\ [][MemNext]_vars

(***************************************************************************)
(* Reg: two registers; every call writes regs[i], j is the other one.      *)
(***************************************************************************)
RegCall(name, i, result) ==
  /\ regs' = [regs EXCEPT ![i] = result]
  /\ rOp' = name
  /\ UNCHANGED <<memVars, opVars, idVars, ccVars, kindVars>>

RegDefault == \E i \in {1, 2} : RegCall("Reg()", i, Reg)

RegCopy == \E i \in {1, 2} : RegCall("Reg(other)", i, regs[3 - i])

RegFromOther ==
  \E i \in {1, 2}, rId \in SampleRegIds :
    RegCall("Reg(other, rId)", i, RegOtherId(regs[3 - i], rId))

RegFromSignature ==
  \E i \in {1, 2}, signature \in SampleSignatures, rId \in SampleRegIds :
    RegCall("Reg(signature, rId)", i, RegSignatureId(signature, rId))

RegSetId ==
  \E i \in {1, 2}, rId \in SampleRegIds : RegCall("setId", i, Reg_setId(regs[i], rId))

RegSetSignatureAndId ==
  \E i \in {1, 2}, signature \in SampleSignatures, rId \in SampleRegIds :
    RegCall("setSignatureAndId", i, setSignatureAndId(regs[i], signature, rId))

RegSetSignatureT ==
  \E i \in {1, 2}, k \in SampleKinds : RegCall("setSignatureT", i, setSignatureT(regs[i], k))

RegCloneAsT ==
  \E i \in {1, 2}, k \in SampleKinds : RegCall("cloneAs<RegT>", i, cloneAsT(regs[3 - i], k))

RegCloneAs ==
  \E i \in {1, 2} : RegCall("cloneAs(other)", i, cloneAs(regs[3 - i], regs[i]))

\* Reg declares no reset of its own: reset() on a Reg is Operand_::reset.
RegReset == \E i \in {1, 2} : RegCall("reset", i, reset(regs[i]))

RegNext ==
  \/ RegReset
  \/ RegDefault
  \/ RegCopy
  \/ RegFromOther
  \/ RegFromSignature
  \/ RegSetId
  \/ RegSetSignatureAndId
  \/ RegSetSignatureT
  \/ RegCloneAsT
  \/ RegCloneAs

SpecReg == InitOther /\ [][RegNext]_vars

(***************************************************************************)
(* Operand: the public constructors and mutators of a generic operand.     *)
(***************************************************************************)
OperandCall(name, result) ==
  /\ opnd' = result
  /\ oOp' = name
  /\ UNCHANGED <<memVars, regVars, idVars, ccVars, kindVars>>

OperandDefault == OperandCall("Operand()", Operand)

OperandRaw ==
  \E p0 \in SampleSignatures, p1 \in {Zero32, U32(1)}, p2 \in {Zero32, U32(1)},
     p3 \in {Zero32, Ones32} :
       OperandCall("Operand(Init)", OperandInit(p0, p1, p2, p3))

OperandReset == OperandCall("reset", reset(opnd))

OperandSetSignature ==
  \E signature \in SampleSignatures : OperandCall("setSignature", setSignature(opnd, signature))

OperandInitReg ==
  \E signature \in SampleSignatures, rId \in SampleRegIds :
    OperandCall("_initReg", _initReg(opnd, signature, rId))

\* Reg::setId through the register view of the operand.
OperandSetId ==
  \E rId \in SampleRegIds : OperandCall("setId", Reg_setId(opnd, rId))

\* Construction of a memory operand.
OperandMem ==
  \E baseType \in {0, kRegGp32}, baseId \in {Zero32, U32(1)}, off \in {Zero32, Ones32} :
    OperandCall("Mem(Init)", MemInit(baseType, baseId, 0, Zero32, off, 0, Zero32))

\* A register of any type, group and size held as a generic operand.
OperandReg ==
  \E type \in {0, kRegMax}, group \in {kGroupGp, kGroupVec, 2, kSignatureRegGroupBits},
     size \in {0, kSignatureSizeBits}, rId \in {Zero32, Ones32} :
       OperandCall("Operand(Reg)", RegSignatureId(kSignature(type, group, size), rId))

\* A label or an immediate held as a generic operand.
OperandLabel == \E id \in SampleRegIds : OperandCall("Operand(Label)", LabelId(id))

OperandImm ==
  \E val \in {<<Zero32, Zero32>>, <<Ones32, Ones32>>} : OperandCall("Operand(Imm)", ImmVal(val))

OperandNext ==
  \/ OperandReg
  \/ OperandLabel
  \/ OperandImm
  \/ OperandDefault
  \/ OperandRaw
  \/ OperandReset
  \/ OperandSetSignature
  \/ OperandInitReg
  \/ OperandSetId
  \/ OperandMem

SpecOperand == InitOther /\ [][OperandNext]_vars

(***************************************************************************)
(* Packed-id helpers: pure functions applied to sample ids.                *)
(***************************************************************************)
IdCall(name, in, out, ok) ==
  /\ pIn' = in
  /\ pOut' = out
  /\ pOk' = ok
  /\ pOp' = name
  /\ UNCHANGED <<memVars, regVars, opVars, ccVars, kindVars>>

PackId == \E id \in SampleIds : IdCall("packId", id, packId(id), FALSE)

\* unpackId of the value packId returned.
UnpackPacked ==
  /\ pOp = "packId"
  /\ IdCall("unpackId(packId)", pIn, unpackId(pOut), FALSE)

IsPackedId == \E id \in SampleIds : IdCall("isPackedId", id, id, isPackedId(id))

\* isPackedId of the value packId returned.
IsPackedPacked ==
  /\ pOp = "packId"
  /\ IdCall("isPackedId(packId)", pIn, pOut, isPackedId(pOut))

IdNext ==
  \/ PackId
  \/ UnpackPacked
  \/ IsPackedId
  \/ IsPackedPacked

SpecId == InitOther /\ [][IdNext]_vars

(***************************************************************************)
(* CallConv::init.                                                         *)
(***************************************************************************)
CallConvInit ==
  \E id \in 0..MaxCcId :
    LET r == CallConv_init(cc, id, buildX86, buildARM)
    IN  /\ cc' = r.cc
        /\ ccErr' = r.err
        /\ ccBuilder' = r.builder
        /\ ccPre' = cc
        /\ ccId' = id
        /\ ccOp' = "init"
        /\ UNCHANGED <<buildX86, buildARM, memVars, regVars, opVars, idVars, kindVars>>

CallConvNext == CallConvInit

SpecCallConv == InitCallConv /\ [][CallConvNext]_vars

(***************************************************************************)
(* Label: two labels; every call writes lbls[i].                           *)
(***************************************************************************)
LabelCall(name, i, result, id) ==
  /\ lbls' = [lbls EXCEPT ![i] = result]
  /\ lblIds' = [lblIds EXCEPT ![i] = id]
  /\ lOp' = name
  /\ UNCHANGED <<memVars, regVars, opVars, idVars, ccVars, immVars, sigVars, roVars>>

LabelDefault == \E i \in {1, 2} : LabelCall("Label()", i, Label, Zero32)

LabelCopy == \E i \in {1, 2} : LabelCall("Label(other)", i, lbls[3 - i], lblIds[3 - i])

LabelFromId == \E i \in {1, 2}, id \in SampleIds : LabelCall("Label(id)", i, LabelId(id), id)

LabelSetId ==
  \E i \in {1, 2}, id \in SampleIds : LabelCall("setId", i, Label_setId(lbls[i], id), id)

LabelReset == \E i \in {1, 2} : LabelCall("reset", i, Label_reset(lbls[i]), Zero32)

LabelNext == LabelDefault \/ LabelCopy \/ LabelFromId \/ LabelSetId \/ LabelReset

SpecLabel == InitOther /\ [][LabelNext]_vars

(***************************************************************************)
(* Imm: one action per mutator; the const member functions are applied by  *)
(* ImmClassify and ImmGet, which record what they return.                  *)
(***************************************************************************)
ImmCall(name, result, out) ==
  /\ imm' = result
  /\ immPre' = imm
  /\ iOp' = name
  /\ iOut' = out
  /\ UNCHANGED <<hostLE, memVars, regVars, opVars, idVars, ccVars, labelVars, sigVars, roVars>>

\* The setters of a narrow value record the argument, as the 64-bit value
\* it denotes, in iOut.
ImmSetInt8 ==
  \E w \in {U32(127), U32(128), U32(255)} :
    ImmCall("setInt8", Imm_setInt8(imm, w), int8_t(w))

ImmSetUInt8 ==
  \E w \in {U32(128), U32(255)} : ImmCall("setUInt8", Imm_setUInt8(imm, w), uint8_t(w))

ImmSetInt16 ==
  \E w \in {U32(Half \div 2 - 1), U32(Half \div 2), U32(Half - 1)} :
    ImmCall("setInt16", Imm_setInt16(imm, w), int16_t(w))

ImmSetUInt16 ==
  \E w \in {U32(Half \div 2), U32(Half - 1)} :
    ImmCall("setUInt16", Imm_setUInt16(imm, w), uint16_t(w))

ImmSetInt32 ==
  \E w \in {U32(128), Pow31, Ones32} : ImmCall("setInt32", Imm_setInt32(imm, w), int32_t(w))

ImmSetUInt32 ==
  \E w \in {U32(128), Pow31, Ones32} : ImmCall("setUInt32", Imm_setUInt32(imm, w), uint32_t(w))

ImmSetInt64 ==
  \E val \in {<<U32(1), U32(255)>>, <<Ones32, sub32(Zero32, U32(129))>>} :
    ImmCall("setInt64", Imm_setInt64(imm, val), FALSE)

ImmSignExtend8Bits == ImmCall("signExtend8Bits", Imm_signExtend8Bits(imm), FALSE)

ImmSignExtend16Bits == ImmCall("signExtend16Bits", Imm_signExtend16Bits(imm), FALSE)

ImmSignExtend32Bits == ImmCall("signExtend32Bits", Imm_signExtend32Bits(imm), FALSE)

ImmZeroExtend8Bits == ImmCall("zeroExtend8Bits", Imm_zeroExtend8Bits(imm), FALSE)

ImmZeroExtend16Bits == ImmCall("zeroExtend16Bits", Imm_zeroExtend16Bits(imm), FALSE)

ImmZeroExtend32Bits == ImmCall("zeroExtend32Bits", Imm_zeroExtend32Bits(imm), FALSE)

\* Imm declares no reset of its own: reset() on an Imm is Operand_::reset.
ImmReset == ImmCall("reset", reset(imm), FALSE)

ImmClassify ==
  \E f \in { <<"isInt8", Imm_isInt8(imm)>>, <<"isUInt8", Imm_isUInt8(imm)>>,
              <<"isInt16", Imm_isInt16(imm)>>, <<"isUInt16", Imm_isUInt16(imm)>>,
              <<"isInt32", Imm_isInt32(imm)>>, <<"isUInt32", Imm_isUInt32(imm)>> } :
    ImmCall(f[1], imm, f[2])

ImmGet ==
  \E f \in { <<"getInt8", Imm_getInt8(imm)>>, <<"getUInt8", Imm_getUInt8(imm)>>,
              <<"getInt16", Imm_getInt16(imm)>>, <<"getUInt16", Imm_getUInt16(imm)>>,
              <<"getInt32", Imm_getInt32(imm)>>, <<"getUInt32", Imm_getUInt32(imm)>>,
              <<"getInt64", Imm_getInt64(imm)>>, <<"getUInt64", Imm_getUInt64(imm)>> } :
    ImmCall(f[1], imm, f[2])

ImmNext ==
  \/ ImmSetInt8
  \/ ImmSetUInt8
  \/ ImmSetInt16
  \/ ImmSetUInt16
  \/ ImmSetInt32 \/ ImmSetUInt32 \/ ImmSetInt64
  \/ ImmSignExtend8Bits \/ ImmSignExtend16Bits \/ ImmSignExtend32Bits
  \/ ImmZeroExtend8Bits \/ ImmZeroExtend16Bits \/ ImmZeroExtend32Bits
  \/ ImmReset \/ ImmClassify \/ ImmGet

SpecImm == InitImm /\ [][ImmNext]_vars

(***************************************************************************)
(* Signature fields: _setSignatureData on the drawn operand, field and     *)
(* value, then _getSignatureData of the same field.                        *)
(***************************************************************************)
SetSignatureData ==
  /\ sgOp = "none"
  /\ sgOut' = _setSignatureData(sgIn, U32(sgVal), sgField[1], sgField[2])
  /\ sgOp' = "_setSignatureData"
  /\ UNCHANGED <<sgIn, sgField, sgVal, sgRead>>
  /\ UNCHANGED <<memVars, regVars, opVars, idVars, ccVars, labelVars, immVars, roVars>>

GetSignatureData ==
  /\ sgOp = "_setSignatureData"
  /\ sgRead' = _getSignatureData(sgOut, sgField[1], sgField[2])
  /\ sgOp' = "_getSignatureData"
  /\ UNCHANGED <<sgIn, sgField, sgVal, sgOut>>
  /\ UNCHANGED <<memVars, regVars, opVars, idVars, ccVars, labelVars, immVars, roVars>>

SigNext == SetSignatureData \/ GetSignatureData

SpecSig == InitSig /\ [][SigNext]_vars

(***************************************************************************)
(* RegOnly.                                                                *)
(***************************************************************************)
RegOnlyCall(name, result, r) ==
  /\ ro' = result
  /\ roReg' = r
  /\ roOp' = name
  /\ UNCHANGED <<memVars, regVars, opVars, idVars, ccVars, labelVars, immVars, sigVars>>

RegOnlyInit ==
  \E signature \in SampleSignatures, id \in SampleRegIds :
    RegOnlyCall("init(signature, id)", RegOnly_init(signature, id), roReg)

\* The registers given to init(reg): built by Reg(signature, rId), or a raw
\* operand with a nonzero word 2 viewed as a Reg (Operand_::as<Reg>()).
RegOnlyInitReg ==
  \E signature \in SampleSignatures, id \in SampleRegIds, p2 \in {Zero32, U32(1)} :
    LET r == OperandInit(signature, id, p2, Zero32)
    IN  RegOnlyCall("init(reg)", RegOnly_initReg(r), r)

RegOnlyReset == RegOnlyCall("reset", RegOnly_reset, roReg)

RegOnlySetId ==
  \E id \in SampleRegIds : RegOnlyCall("setId", RegOnly_setId(ro, id), roReg)

RegOnlyNext == RegOnlyInit \/ RegOnlyInitReg \/ RegOnlyReset \/ RegOnlySetId

SpecRegOnly == InitRegOnly /\ [][RegOnlyNext]_vars

(***************************************************************************)
(* Claims about Mem, checked under SpecMem.                                *)
(***************************************************************************)
\* C1: in absolute mode (base type 0) setOffset(v) followed by getOffset()
\* returns exactly v: the low 32 bits of v are in the displacement word and
\* the high 32 bits in the id/base word.
C1_AbsoluteOffsetRoundTrip ==
  (mOp = "setOffset" /\ isOffset64Bit(mPre)) =>
     /\ getOffset(mem) = mOff
     /\ mem.p32_3 = lo32(mOff)
     /\ mem.id = hi32(mOff)

\* setOffset(0x1_0000_0000) on an operand without base reads back as 0x1_0000_0000.
C1_Witness ==
  /\ mOp = "setOffset"
  /\ isOffset64Bit(mPre)
  /\ mOff = <<U32(1), Zero32>>
  /\ mPre.id # U32(1)
  /\ getOffset(mem) = <<U32(1), Zero32>>

\* C2: with a base present setOffset(v) followed by getOffset() returns the
\* sign extension of the low 32 bits of v; the high 32 bits of v are dropped
\* and the call completes without reporting anything.
C2_BaseOffsetLossy ==
  (mOp = "setOffset" /\ ~isOffset64Bit(mPre)) =>
     /\ getOffset(mem) = sext32(lo32(mOff))
     /\ mem.id = mPre.id

\* setOffset(v) with a base, v having high bits set and a negative low word.
C2_Witness ==
  /\ mOp = "setOffset"
  /\ hasBase(mPre)
  /\ hi32(mOff) = U32(1)
  /\ neg32(lo32(mOff))
  /\ getOffset(mem) = <<Ones32, lo32(mOff)>>

\* C3: setBase(r) with a register of type >= 2 on an absolute-mode operand
\* holding the 64-bit offset v leaves base type r.getType() and base id
\* r.getId(), and getOffset() is then the sign-extended low 32 bits of v; no
\* reachable operand reports both a base and a 64-bit offset.
C3_EitherBaseOrOffset64 ==
  /\ ~(hasBase(mem) /\ isOffset64Bit(mem))
  /\ (mOp = "setBase" /\ isOffset64Bit(mPre) /\ le32(U32(2), getType(mReg))) =>
        /\ getBaseType(mem) = getType(mReg)
        /\ getBaseId(mem) = getId(mReg)
        /\ hasBase(mem)
        /\ getOffset(mem) = sext32(lo32(getOffset(mPre)))

\* setBase on an absolute address whose high word is not zero.
C3_Witness ==
  /\ mOp = "setBase"
  /\ isOffset64Bit(mPre)
  /\ hi32(getOffset(mPre)) = sub32(Pow31, U32(1))
  /\ getType(mReg) = U32(kRegGp32)
  /\ getBaseId(mem) = U32(1)
  /\ getOffset(mem) # getOffset(mPre)

C22_BasePartition ==
  LET noBase == isOffset64Bit(mem) /\ ~hasBase(mem)
      card(b) == IF b THEN 1 ELSE 0
  IN  /\ card(noBase) + card(hasBaseLabel(mem)) + card(hasBaseReg(mem)) = 1
      /\ noBase <=> getBaseType(mem) = Zero32
      /\ isOffset64Bit(mem) <=> ~hasBase(mem)
      /\ hasBaseLabel(mem) <=> getBaseType(mem) = U32(kLabelTag)
      /\ hasBaseReg(mem) <=> le32(U32(2), getBaseType(mem))
      /\ hasBaseAndIndex(mem) <=> (hasBase(mem) /\ hasIndex(mem))

\* A label base replaced by a register base, with an index present.
C22_Witness ==
  /\ mOp = "setBase"
  /\ hasBaseLabel(mPre)
  /\ ~hasBaseReg(mPre)
  /\ hasBaseReg(mem)
  /\ ~hasBaseLabel(mem)
  /\ hasBaseAndIndex(mem)

\* C23: setOffset(v) never changes the signature word or the index id; with
\* a base present it also leaves the base id (word 1) unchanged, so only
\* the displacement word changes; word 1 is written only in absolute mode.
C23_SetOffsetFrame ==
  (mOp = "setOffset") =>
     /\ mem.signature = mPre.signature
     /\ mem.p32_2 = mPre.p32_2
     /\ hasBase(mPre) => (mem.id = mPre.id /\ mem = [mPre EXCEPT !.p32_3 = lo32(mOff)])
     /\ mem.id # mPre.id => isOffset64Bit(mPre)

\* A 64-bit value with a nonzero high word stored through a register base.
C23_Witness ==
  /\ mOp = "setOffset"
  /\ hasBaseReg(mPre)
  /\ hasIndex(mPre)
  /\ hi32(mOff) # Zero32
  /\ hi32(mOff) # mPre.id
  /\ mem.id = mPre.id
  /\ mem.p32_3 = lo32(mOff)
  /\ mem.p32_3 # mPre.p32_3

\* C24: setRegHome() and clearRegHome() change only signature bit 15:
\* isRegHome() is true after the first and false after the second, and the
\* tag, the base and index types and ids, the address type, the size,
\* getOffset() and hasOffset() are unchanged.
C24_RegHomeFrame ==
  (mOp \in {"setRegHome", "clearRegHome"}) =>
     /\ and32(mem.signature, not32(kSignatureMemRegHomeFlag)) =
          and32(mPre.signature, not32(kSignatureMemRegHomeFlag))
     /\ isRegHome(mem) <=> (mOp = "setRegHome")
     /\ getOp(mem) = getOp(mPre)
     /\ getBaseType(mem) = getBaseType(mPre)
     /\ getIndexType(mem) = getIndexType(mPre)
     /\ getBaseId(mem) = getBaseId(mPre)
     /\ getIndexId(mem) = getIndexId(mPre)
     /\ getAddrType(mem) = getAddrType(mPre)
     /\ getSize(mem) = getSize(mPre)
     /\ getOffset(mem) = getOffset(mPre)
     /\ hasOffset(mem) = hasOffset(mPre)

\* The flag cleared on an operand that has a size, an address type, a base,
\* an index and a displacement.
C24_Witness ==
  /\ mOp = "clearRegHome"
  /\ isRegHome(mPre)
  /\ ~isRegHome(mem)
  /\ getAddrType(mem) = U32(kAddrTypeWrt)
  /\ getSize(mem) = U32(kSignatureSizeBits)
  /\ hasBaseAndIndex(mem)
  /\ hasOffset(mem)

\* The flag set on an operand that did not have it.
C24_WitnessSet ==
  /\ mOp = "setRegHome"
  /\ ~isRegHome(mPre)
  /\ isRegHome(mem)

\* C25: in every Mem state hasOffset() holds exactly when getOffset() is not
\* zero: a nonzero base id never makes hasOffset() true when a base type is
\* set, and a nonzero high address word does make it true in absolute mode.
C25_HasOffsetIsNonZeroOffset ==
  /\ hasOffset(mem) <=> (getOffset(mem) # <<Zero32, Zero32>>)
  /\ (hasBase(mem) /\ getOffsetLo32(mem) = Zero32) => ~hasOffset(mem)
  /\ (~hasBase(mem) /\ mem.id # Zero32) => hasOffset(mem)

\* The displacement reset next to a nonzero base id.
C25_Witness ==
  /\ mOp = "resetOffset"
  /\ hasBase(mem)
  /\ getBaseId(mem) = Ones32
  /\ hasOffset(mPre)
  /\ ~hasOffset(mem)
  /\ getOffset(mem) = <<Zero32, Zero32>>

\* An absolute address whose low word is zero and whose high word is not.
C25_WitnessAbsolute ==
  /\ mOp = "setOffset"
  /\ isOffset64Bit(mem)
  /\ getOffsetLo32(mem) = Zero32
  /\ mem.id = Pow31
  /\ hasOffset(mem)

\* C26: after resetBase() on a memory operand that had a base and a 32-bit
\* displacement d, hasBase() is false, the base id is 0 and getOffset() is d
\* read as an unsigned 32-bit value, which equals the getOffset() of before
\* the reset exactly when d was non-negative as a signed 32-bit value.
C26_ResetBaseZeroExtends ==
  (mOp = "resetBase" /\ hasBase(mPre)) =>
     /\ ~hasBase(mem)
     /\ getBaseId(mem) = Zero32
     /\ getOffset(mem) = <<Zero32, getOffsetLo32(mPre)>>
     /\ (getOffset(mem) = getOffset(mPre)) <=> lt32(getOffsetLo32(mPre), Pow31)

\* A register base with displacement -1 and a nonzero id: the offset read
\* after the reset is 0xFFFFFFFF.
C26_Witness ==
  /\ mOp = "resetBase"
  /\ hasBaseReg(mPre)
  /\ getBaseId(mPre) # Zero32
  /\ getOffset(mPre) = <<Ones32, Ones32>>
  /\ getOffset(mem) = <<Zero32, Ones32>>
  /\ isOffset64Bit(mem)

\* The member functions that are not meant to switch the addressing mode.
ModeKeeping ==
  { "setOffset", "setOffsetLo32", "addOffset", "addOffsetLo32", "resetOffset",
    "resetOffsetLo32", "setBaseId", "setIndexId", "setIndex", "resetIndex", "setSize",
    "setAddrType", "setAbs", "setRel", "setWrt", "resetAddrType", "setRegHome",
    "clearRegHome" }

\* The last call handed _setSignatureData a value that fits its field, or
\* did not go through it.
InRange == mVal = <<>> \/ le32(mVal[1], mVal[2])

\* C27: a call of setOffset, setOffsetLo32, addOffset, addOffsetLo32,
\* resetOffset, setBaseId, setIndexId, setIndex, resetIndex, setSize,
\* setAddrType / setAbs / setRel / setWrt / resetAddrType or setRegHome /
\* clearRegHome with in-range arguments changes neither isOffset64Bit() nor
\* getBaseType() and leaves isMem() true, so no sequence of them does; only
\* setBase / resetBase and reset switch the mode.
C27_ModeIsStable ==
  /\ (mOp \in ModeKeeping /\ InRange) =>
        /\ isOffset64Bit(mem) = isOffset64Bit(mPre)
        /\ getBaseType(mem) = getBaseType(mPre)
        /\ isMem(mPre) => isMem(mem)
  /\ isMem(mem)
  /\ getBaseType(mem) # getBaseType(mPre) => mOp \in {"setBase", "resetBase", "reset"}

\* An index of the largest register type set next to a label base.
C27_Witness ==
  /\ mOp = "setIndex"
  /\ getType(mReg) = U32(kRegMax)
  /\ hasBaseLabel(mPre)
  /\ hasBaseLabel(mem)
  /\ getIndexType(mem) = U32(kRegMax)
  /\ getIndexType(mem) # getIndexType(mPre)

\* The field a member function writes through _setSignatureData.
FieldShift(name) ==
  CASE name \in {"setBase", "resetBase"} -> kSignatureMemBaseTypeShift
    [] name \in {"setIndex", "resetIndex"} -> kSignatureMemIndexTypeShift
    [] name \in {"setAddrType", "setAbs", "setRel", "setWrt"} -> kSignatureMemAddrTypeShift
    [] name = "setSize" -> kSignatureSizeShift

\* C28: for every Reg r, whatever its signature, setBase(r), setIndex(r),
\* resetBase(), resetIndex(), setAbs(), setRel() and setWrt() hand
\* _setSignatureData a value <= bits, so ASMJIT_ASSERT(value <= bits) holds
\* and no bit outside the target field is modified; only the caller-supplied
\* setSize(size) and setAddrType(addrType) can violate the assertion.
C28_InternalValuesFit ==
  /\ mOp \in {"setBase", "setIndex", "resetBase", "resetIndex", "setAbs", "setRel", "setWrt"} =>
        LET outside == not32(shl32(mVal[2], FieldShift(mOp)))
        IN  /\ le32(mVal[1], mVal[2])
            /\ and32(mem.signature, outside) = and32(mPre.signature, outside)
            /\ _getSignatureData(mem, mVal[2][2], FieldShift(mOp)) = mVal[1]
  /\ mOp = "abort" => mVal[3] \in {"setSize", "setAddrType"}

\* A register whose signature has every bit set becomes the base: the type
\* handed over is 31, and the index type, size and flags are as before.
C28_Witness ==
  /\ mOp = "setBase"
  /\ mReg.signature = Ones32
  /\ mVal = <<U32(kRegMax), U32(kSignatureMemBaseTypeBits), "setBase">>
  /\ getBaseType(mem) = U32(kRegMax)
  /\ hasIndex(mem)
  /\ isRegHome(mem)
  /\ getSize(mem) = U32(kSignatureSizeBits)

\* setSize(256) in a build that keeps assertions.
C28_WitnessAbort ==
  /\ mOp = "abort"
  /\ mVal = <<U32(kSignatureSizeBits + 1), U32(kSignatureSizeBits), "setSize">>

\* setAddrType(4) in a build without assertions sets the register home flag.
C28_WitnessOutside ==
  /\ mOp = "setAddrType"
  /\ mVal[1] = U32(kAddrTypeWrt + 1)
  /\ ~isRegHome(mPre)
  /\ isRegHome(mem)

(***************************************************************************)
(* Claims about Reg, checked under SpecReg.                                *)
(***************************************************************************)
\* C5, as stated: a register operand with id 255 reports isPhysReg() and not
\* isVirtReg(); one with id 256 reports isVirtReg() and not isPhysReg().
C5_AsStated ==
  \A i \in {1, 2} :
    isReg(regs[i]) =>
      /\ regs[i].id = U32(255) =>
           (isPhysReg(regs[i]) /\ Reg_isPhysReg(regs[i])
              /\ ~isVirtReg(regs[i]) /\ ~Reg_isVirtReg(regs[i]))
      /\ regs[i].id = U32(256) =>
           (~isPhysReg(regs[i]) /\ ~Reg_isPhysReg(regs[i])
              /\ isVirtReg(regs[i]) /\ Reg_isVirtReg(regs[i]))

\* C5, amended: a register operand with id 254 reports isPhysReg() and not
\* isVirtReg(); with id 255 (kIdBad) it reports neither; with id 256 it
\* reports isVirtReg() and not isPhysReg().  Operand_ and Reg agree.
C5_RegisterIdBoundary ==
  \A i \in {1, 2} :
    isReg(regs[i]) =>
      /\ regs[i].id = U32(254) =>
           (isPhysReg(regs[i]) /\ Reg_isPhysReg(regs[i])
              /\ ~isVirtReg(regs[i]) /\ ~Reg_isVirtReg(regs[i]))
      /\ regs[i].id = U32(255) =>
           (~isPhysReg(regs[i]) /\ ~Reg_isPhysReg(regs[i])
              /\ ~isVirtReg(regs[i]) /\ ~Reg_isVirtReg(regs[i]))
      /\ regs[i].id = U32(256) =>
           (~isPhysReg(regs[i]) /\ ~Reg_isPhysReg(regs[i])
              /\ isVirtReg(regs[i]) /\ Reg_isVirtReg(regs[i]))

\* A register with id 255 next to one with id 256.
C5_Witness ==
  /\ isReg(regs[1]) /\ regs[1].id = U32(255)
  /\ isReg(regs[2]) /\ regs[2].id = U32(256)
  /\ rOp = "setId"

\* C9: words 2 and 3 of a Reg are zero after any sequence of Reg
\* constructors, copies, setId, setSignatureAndId, setSignatureT and
\* cloneAs, so isSame and isEqual agree on any two such registers.
C9_SameIsEqual ==
  /\ \A i \in {1, 2} : regs[i].p32_2 = Zero32 /\ regs[i].p32_3 = Zero32
  /\ \A i \in {1, 2}, j \in {1, 2} : isSame(regs[i], regs[j]) = isEqual(regs[i], regs[j])

\* Two valid registers made the same by cloneAs, and two that differ.
C9_Witness ==
  /\ rOp = "cloneAs(other)"
  /\ isReg(regs[1])
  /\ regs[1].id = U32(kIdBad + 1)
  /\ isSame(regs[1], regs[2])
  /\ isEqual(regs[1], regs[2])

(***************************************************************************)
(* Claims about Operand, checked under SpecOperand.                        *)
(***************************************************************************)
AllWordsZero(o) ==
  o.signature = Zero32 /\ o.id = Zero32 /\ o.p32_2 = Zero32 /\ o.p32_3 = Zero32

C19_PhysVirtOnlyForReg ==
  getOp(opnd) \in {U32(kOpNone), U32(kOpMem), U32(kOpImm), U32(kOpLabel)} =>
     ~isPhysReg(opnd) /\ ~isVirtReg(opnd)

\* An immediate whose word 1 was set to the first virtual id.
C19_Witness ==
  /\ oOp = "setId"
  /\ isImm(opnd)
  /\ opnd.id = U32(kIdBad + 1)
  /\ ~isVirtReg(opnd)
  /\ ~isPhysReg(opnd)

(***************************************************************************)
(* Claims about the packed-id helpers, checked under SpecId.               *)
(***************************************************************************)
\* C7: unpackId(packId(id)) = id for every 32-bit id, both computed modulo
\* 2^32, also where id + 256 overflows.
C7_PackedIdRoundTrip == pOp = "unpackId(packId)" => pOut = pIn

\* A round trip through an id whose packed value wrapped.
C7_Witness ==
  /\ pOp = "unpackId(packId)"
  /\ pIn = Ones32
  /\ pOut = Ones32

\* C8: isPackedId(x) is true exactly when 256 <= x <= 2^32-1 and false
\* exactly when x is in [0, 255]; isPackedId(packId(id)) is true for every
\* id in [0, 2^32-257] and false exactly for the ids whose packed value
\* wraps into [0, 255].
C8_PackedIdRange ==
  /\ pOp = "isPackedId" =>
        /\ pOk <=> (le32(U32(256), pIn) /\ le32(pIn, Ones32))
        /\ ~pOk <=> le32(pIn, U32(255))
  /\ pOp = "isPackedId(packId)" =>
        /\ pOk <=> le32(pIn, sub32(Zero32, U32(257)))
        /\ ~pOk <=> le32(pOut, U32(255))

\* The first id whose packed value wraps into the physical range.
C8_Witness ==
  /\ pOp = "isPackedId(packId)"
  /\ pIn = sub32(Zero32, U32(256))
  /\ pOut = Zero32
  /\ ~pOk

(***************************************************************************)
(* Claims about CallConv::init, checked under SpecCallConv.                *)
(***************************************************************************)
\* Some compiled-in architecture family recognizes the id.
Recognized(id) == (buildX86 /\ isX86Family(id)) \/ (buildARM /\ isArmFamily(id))

\* C10: init(id) with an id no compiled-in family recognizes returns
\* InvalidArgument, calls no family builder and leaves the descriptor equal
\* to its reset state, whatever state an earlier init left.
C10_InitFailure ==
  (ccOp = "init" /\ ~Recognized(ccId)) =>
     /\ ccErr = "kErrorInvalidArgument"
     /\ ccBuilder = "none"
     /\ cc = CallConv_reset

\* A failing init on a descriptor that an earlier init had filled in.
C10_Witness ==
  /\ ccOp = "init"
  /\ ~Recognized(ccId)
  /\ ccPre # CallConv_reset
  /\ ccErr = "kErrorInvalidArgument"
  /\ cc = CallConv_reset

\* C11 as stated: once the descriptor is initialized, no init call takes it
\* back to the reset state.
C11_AsStated == [][cc # CallConv_reset => cc' # CallConv_reset]_vars

\* C11: the descriptor has the two states reset and initialized, and an
\* init(id) on an initialized descriptor leaves it initialized exactly when
\* a compiled-in family recognizes id; an init(id) with an unrecognized id
\* takes it back to the reset state.
C11_InitializedUnlessRejected ==
  (ccOp = "init" /\ ccPre # CallConv_reset) =>
     /\ (cc # CallConv_reset) <=> Recognized(ccId)
     /\ (cc = CallConv_reset) <=> (ccErr = "kErrorInvalidArgument")

\* A second successful init on an initialized descriptor.
C11_Witness ==
  /\ ccOp = "init"
  /\ ccPre # CallConv_reset
  /\ Recognized(ccId)
  /\ ccErr = "kErrorOk"
  /\ cc # CallConv_reset
  /\ cc # ccPre

\* C12: the descriptor, the return value and the builder of init(id) after
\* earlier init calls are those of init(id) on a freshly reset descriptor,
\* and the builder is the first compiled-in family accepting id, x86 before
\* ARM.
C12_InitDiscardsPriorState ==
  ccOp = "init" =>
     LET fresh == CallConv_init(CallConv_reset, ccId, buildX86, buildARM)
     IN  /\ cc = fresh.cc
         /\ ccErr = fresh.err
         /\ ccBuilder = fresh.builder
         /\ ccBuilder = IF buildX86 /\ isX86Family(ccId) THEN "x86"
                        ELSE IF buildARM /\ isArmFamily(ccId) THEN "arm"
                        ELSE "none"

\* An init on a descriptor that an earlier init of the other family filled.
C12_Witness ==
  /\ ccOp = "init"
  /\ ccPre.arch = "arm"
  /\ cc.arch = "x86"
  /\ ccBuilder = "x86"
  /\ ccErr = "kErrorOk"

(***************************************************************************)
(* Claims about Label, checked under SpecLabel.                            *)
(***************************************************************************)
\* C13: a default-constructed Label has id 0 and is not valid; after any
\* sequence of Label(id), setId and reset a label is valid iff the id most
\* recently assigned to it is nonzero, its type tag is still label and its
\* words 2-3 are zero.
C13_LabelValidity ==
  /\ Label.id = Zero32 /\ ~Label_isValid(Label)
  /\ \A i \in {1, 2} :
        /\ Label_isValid(lbls[i]) <=> (lblIds[i] # Zero32)
        /\ getId(lbls[i]) = lblIds[i]
        /\ isLabel(lbls[i])
        /\ lbls[i].p32_2 = Zero32
        /\ lbls[i].p32_3 = Zero32

\* A label made valid by setId with an id below the packed range, next to
\* one that reset made invalid again.
C13_Witness ==
  /\ lOp = "reset"
  /\ lblIds[1] = U32(1)
  /\ Label_isValid(lbls[1])
  /\ lblIds[2] = Zero32
  /\ ~Label_isValid(lbls[2])
  /\ lbls[2] = Label

(***************************************************************************)
(* Claims about Imm, checked under SpecImm.                                *)
(***************************************************************************)
\* The stored int64_t v lies in -2^31 .. 2^31 - 1, and its numeric value.
InInt32(v) ==
  \/ v[1] = Zero32 /\ v[2][1] < Half \div 2
  \/ v[1] = Ones32 /\ v[2][1] >= Half \div 2

Num(v) == (IF v[1] = Zero32 THEN v[2][1] ELSE v[2][1] - Half) * Half + v[2][2]

\* low <= v <= high for bounds within the range of int32_t.
Between(v, low, high) == InInt32(v) /\ low <= Num(v) /\ Num(v) <= high

\* v mod 2^n, and the two's-complement signed reading of v mod 2^n, as
\* 64-bit values; n is 8, 16, 32 or 64.
LowBits(v, n) ==
  IF n = 8 THEN <<Zero32, <<0, v[2][2] % 256>>>>
  ELSE IF n = 16 THEN <<Zero32, <<0, v[2][2]>>>>
  ELSE IF n = 32 THEN <<Zero32, v[2]>>
  ELSE v

SignedReading(v, n) ==
  LET u == LowBits(v, n)
      top == IF n = 8 THEN u[2][2] >= 128
             ELSE IF n = 16 THEN u[2][2] >= Half \div 2
             ELSE u[2][1] >= Half \div 2
      \* 2^64 - 2^n
      wrap == IF n = 8 THEN <<Ones32, <<Half - 1, Half - 256>>>>
              ELSE IF n = 16 THEN <<Ones32, <<Half - 1, 0>>>>
              ELSE <<Ones32, Zero32>>
  IN  IF n < 64 /\ top THEN add64(u, wrap) ELSE u

ImmPredicates == {"isInt8", "isUInt8", "isInt16", "isUInt16", "isInt32", "isUInt32"}

ImmGetters ==
  {"getInt8", "getUInt8", "getInt16", "getUInt16", "getInt32", "getUInt32", "getInt64", "getUInt64"}

\* C14: each width predicate is a range test on the stored signed 64-bit
\* value v (isInt8 iff -128 <= v <= 127, isInt16 iff -32768 <= v <= 32767,
\* isInt32 iff -2^31 <= v <= 2^31 - 1, isUInt8 iff 0 <= v <= 255, isUInt16
\* iff 0 <= v <= 65535, isUInt32 iff 0 <= v <= 2^32 - 1) and leaves the
\* operand unchanged.
C14_WidthClassification ==
  iOp \in ImmPredicates =>
     LET v == imm_i64(immPre)
     IN  /\ imm = immPre
         /\ iOp = "isInt8" => (iOut <=> Between(v, -128, 127))
         /\ iOp = "isInt16" => (iOut <=> Between(v, -32768, 32767))
         /\ iOp = "isInt32" => (iOut <=> InInt32(v))
         /\ iOp = "isUInt8" => (iOut <=> Between(v, 0, 255))
         /\ iOp = "isUInt16" => (iOut <=> Between(v, 0, 65535))
         /\ iOp = "isUInt32" => (iOut <=> v[1] = Zero32)

\* -129 passes isInt16 and fails isInt8.
C14_Witness ==
  /\ iOp = "isInt16"
  /\ iOut = TRUE
  /\ imm_i64(imm) = <<Ones32, sub32(Zero32, U32(129))>>
  /\ ~Imm_isInt8(imm)
  /\ Imm_isInt8(ImmVal(<<Zero32, U32(127)>>))
  /\ ~Imm_isInt8(ImmVal(<<Zero32, U32(128)>>))
  /\ Imm_isInt16(ImmVal(<<Zero32, U32(128)>>))

\* C15: signExtendNBits replaces the stored value v by the sign extension
\* of its low N bits and zeroExtendNBits by v mod 2^N, for N = 8, 16, 32;
\* neither touches the signature or the id word.
C15_ExtendInPlace ==
  LET v == imm_i64(immPre)
      w == imm_i64(imm)
  IN  /\ iOp = "signExtend8Bits" => w = SignedReading(v, 8)
      /\ iOp = "signExtend16Bits" => w = SignedReading(v, 16)
      /\ iOp = "signExtend32Bits" => w = SignedReading(v, 32)
      /\ iOp = "zeroExtend8Bits" => w = LowBits(v, 8)
      /\ iOp = "zeroExtend16Bits" => w = LowBits(v, 16)
      /\ iOp = "zeroExtend32Bits" => w = LowBits(v, 32)
      /\ iOp \in {"signExtend8Bits", "signExtend16Bits", "signExtend32Bits",
                   "zeroExtend8Bits", "zeroExtend16Bits", "zeroExtend32Bits"} =>
            imm.signature = immPre.signature /\ imm.id = immPre.id

\* A stored 0xFF that signExtend8Bits turned into -1.
C15_Witness ==
  /\ iOp = "signExtend8Bits"
  /\ imm_i64(immPre) = <<Zero32, U32(255)>>
  /\ imm_i64(imm) = <<Ones32, Ones32>>
  /\ isImm(imm)

\* C16: getUIntN returns v mod 2^N and getIntN the two's-complement signed
\* reading of v mod 2^N, for N = 8, 16, 32, 64 and every stored v, whether
\* or not v passes isIntN / isUIntN; the getters leave the operand unchanged.
C16_GettersTruncate ==
  iOp \in ImmGetters =>
     LET v == imm_i64(immPre)
     IN  /\ imm = immPre
         /\ iOp = "getInt8" => iOut = SignedReading(v, 8)
         /\ iOp = "getUInt8" => iOut = LowBits(v, 8)
         /\ iOp = "getInt16" => iOut = SignedReading(v, 16)
         /\ iOp = "getUInt16" => iOut = LowBits(v, 16)
         /\ iOp = "getInt32" => iOut = SignedReading(v, 32)
         /\ iOp = "getUInt32" => iOut = LowBits(v, 32)
         /\ iOp = "getInt64" => iOut = SignedReading(v, 64)
         /\ iOp = "getUInt64" => iOut = LowBits(v, 64)

\* getInt16 of 2^32 + 0x8000, which is no int16_t: -32768.
C16_Witness ==
  /\ iOp = "getInt16"
  /\ imm_i64(imm) = <<U32(1), U32(Half \div 2)>>
  /\ ~Imm_isInt16(imm)
  /\ iOut = <<Ones32, sub32(Zero32, U32(Half \div 2))>>

\* C29: for every stored 64-bit value and N in {8, 16, 32}, isIntN() implies
\* getIntN() = getInt64() and isUIntN() implies getUIntN() = getUInt64();
\* conversely after setIntN(x) (setUIntN(x)) of an N-bit x, isIntN()
\* (isUIntN()) holds and getIntN() (getUIntN()) returns x.
C29_LosslessNarrowing ==
  /\ Imm_isInt8(imm) => Imm_getInt8(imm) = Imm_getInt64(imm)
  /\ Imm_isInt16(imm) => Imm_getInt16(imm) = Imm_getInt64(imm)
  /\ Imm_isInt32(imm) => Imm_getInt32(imm) = Imm_getInt64(imm)
  /\ Imm_isUInt8(imm) => Imm_getUInt8(imm) = Imm_getUInt64(imm)
  /\ Imm_isUInt16(imm) => Imm_getUInt16(imm) = Imm_getUInt64(imm)
  /\ Imm_isUInt32(imm) => Imm_getUInt32(imm) = Imm_getUInt64(imm)
  /\ iOp = "setInt8" => (Imm_isInt8(imm) /\ Imm_getInt8(imm) = iOut)
  /\ iOp = "setInt16" => (Imm_isInt16(imm) /\ Imm_getInt16(imm) = iOut)
  /\ iOp = "setInt32" => (Imm_isInt32(imm) /\ Imm_getInt32(imm) = iOut)
  /\ iOp = "setUInt8" => (Imm_isUInt8(imm) /\ Imm_getUInt8(imm) = iOut)
  /\ iOp = "setUInt16" => (Imm_isUInt16(imm) /\ Imm_getUInt16(imm) = iOut)
  /\ iOp = "setUInt32" => (Imm_isUInt32(imm) /\ Imm_getUInt32(imm) = iOut)

\* setInt8(-128) on a big-endian host: the value is an int8 and not a uint8.
C29_Witness ==
  /\ iOp = "setInt8"
  /\ ~hostLE
  /\ iOut = <<Ones32, sub32(Zero32, U32(128))>>
  /\ Imm_isInt8(imm)
  /\ ~Imm_isUInt8(imm)
  /\ Imm_getInt8(imm) = Imm_getInt64(imm)

\* setUInt16(0x8000): the value passes isUInt16 and fails isInt16.
C29_WitnessStored ==
  /\ iOp = "setUInt16"
  /\ Imm_isUInt16(imm)
  /\ ~Imm_isInt16(imm)
  /\ Imm_getUInt16(imm) = Imm_getUInt64(imm)
  /\ Imm_getInt16(imm) # Imm_getInt64(imm)

\* C18: for every operand kind (Operand, Reg, Mem, Imm, Label), reset() on
\* a value of that kind, after any sequence of that kind's mutators, yields
\* a value that isEqual to a freshly default-constructed value of the kind.
C18_ResetMatchesConstruction ==
  /\ oOp = "reset" => isEqual(opnd, Operand)
  /\ rOp = "reset" => \E i \in {1, 2} : isEqual(regs[i], Reg)
  /\ mOp = "reset" => isEqual(mem, Mem)
  /\ lOp = "reset" => \E i \in {1, 2} : isEqual(lbls[i], Label)
  /\ iOp = "reset" => isEqual(imm, Imm)

(***************************************************************************)
(* Claims about the signature fields, checked under SpecSig.               *)
(***************************************************************************)
\* Bit k of a 32-bit word.
Bit(w, k) == IF k < 16 THEN (w[2] \div (2 ^ k)) % 2 ELSE (w[1] \div (2 ^ (k - 16))) % 2

\* The number of bits of a field whose mask is bits.
Width(bits) == CHOOSE n \in 1..10 : 2 ^ n = bits + 1

\* C17: for every field (bits, shift) of the layout catalogue, signature s
\* and value x <= bits, _setSignatureData(x, bits, shift) followed by
\* _getSignatureData(bits, shift) returns x, and every signature bit outside
\* bits << shift and words 1-3 are unchanged.
C17_FieldIsolation ==
  /\ sgOp # "none" =>
        /\ \A k \in 0..31 :
              (k < sgField[2] \/ k >= sgField[2] + Width(sgField[1])) =>
                 Bit(sgOut.signature, k) = Bit(sgIn.signature, k)
        /\ \A k \in 0..(Width(sgField[1]) - 1) :
              Bit(sgOut.signature, sgField[2] + k) = (sgVal \div (2 ^ k)) % 2
        /\ sgOut.id = sgIn.id
        /\ sgOut.p32_2 = sgIn.p32_2
        /\ sgOut.p32_3 = sgIn.p32_3
  /\ sgOp = "_getSignatureData" => sgRead = U32(sgVal)

\* The size field of an all-ones signature rewritten to 1 and read back.
C17_Witness ==
  /\ sgOp = "_getSignatureData"
  /\ sgField = <<kSignatureSizeBits, kSignatureSizeShift>>
  /\ sgIn.signature = Ones32
  /\ sgVal = 1
  /\ sgRead = U32(1)
  /\ sgOut.signature = <<511, Half - 1>>

(***************************************************************************)
(* Claims about RegOnly, checked under SpecRegOnly.                        *)
(***************************************************************************)
\* C20: a RegOnly initialised with init(r), for a Reg r whose words 2-3 are
\* zero, reports the signature, id, type and group of r, and toReg<Reg>()
\* returns a value that isEqual to r; after reset() the RegOnly is isNone()
\* and not isValid().
C20_RegOnlyRoundTrip ==
  /\ (roOp = "init(reg)" /\ roReg.p32_2 = Zero32 /\ roReg.p32_3 = Zero32) =>
        /\ ro.signature = getSignature(roReg)
        /\ ro.id = getId(roReg)
        /\ RegOnly_getType(ro) = getType(roReg)
        /\ RegOnly_getGroup(ro) = getGroup(roReg)
        /\ isEqual(RegOnly_toReg(ro), roReg)
  /\ roOp = "reset" => RegOnly_isNone(ro) /\ ~RegOnly_isValid(ro)

\* A virtual vector register carried through a RegOnly.
C20_Witness ==
  /\ roOp = "init(reg)"
  /\ roReg = RegSignatureId(kSignature(kRegVec128, kGroupVec, 16), U32(kIdBad + 1))
  /\ RegOnly_isValid(ro)
  /\ RegOnly_isVirtReg(ro)
  /\ RegOnly_getGroup(ro) = U32(kGroupVec)
  /\ isEqual(RegOnly_toReg(ro), roReg)

\* C30: for every Reg and every RegOnly, whatever its signature (a none or
\* default value included), isPhysReg() and isVirtReg() are never both
\* true, both are false exactly when the id is 255 (kIdBad), and
\* isVirtReg() holds exactly when isPackedId(id).
C30_IdAloneClassifies ==
  \A v \in { <<Reg_isPhysReg(roReg), Reg_isVirtReg(roReg), getId(roReg)>>,
              <<RegOnly_isPhysReg(ro), RegOnly_isVirtReg(ro), ro.id>> } :
    LET phys == v[1]
        virt == v[2]
    IN  /\ ~(phys /\ virt)
        /\ (~phys /\ ~virt) <=> (v[3] = U32(kIdBad))
        /\ virt <=> isPackedId(v[3])

\* A none RegOnly whose id became 255 next to a Reg with no signature and
\* the first virtual id.
C30_Witness ==
  /\ roOp = "setId"
  /\ RegOnly_isNone(ro)
  /\ ro.id = U32(kIdBad)
  /\ ~RegOnly_isPhysReg(ro)
  /\ ~RegOnly_isVirtReg(ro)
  /\ isNone(roReg)
  /\ getId(roReg) = U32(kIdBad + 1)
  /\ Reg_isVirtReg(roReg)
  /\ ~isVirtReg(roReg)

====
